---- MODULE Spec2Model ----
(***************************************************************************)
(* The coin-cache map game: the Board that canonicalises grid cells, the   *)
(* cache ledger (GameState.cacheStore), the rectangles displayed on the    *)
(* map with their collect/deposit handlers, the player marker, the         *)
(* movement polyline and the four localStorage keys.                       *)
(*                                                                         *)
(* Coordinates are integers: one unit is half a tile (5e-5 degrees), and   *)
(* the origin is shifted by whole tiles so that the classroom lies in the  *)
(* cell (0,-1), well inside it as the real classroom is inside its cell.   *)
(* Floating-point rounding is not modelled.                                *)
(***************************************************************************)
EXTENDS Integers, Sequences, FiniteSets, TLC

VARIABLES playerMarker,      \* LatLng of the player marker
          playerCoins,       \* GameState.playerCoins
          cacheStore,        \* GameState.cacheStore : key -> Cache
          rects,             \* the Cache objects bound to the rectangles on the map
          movementPolyline,  \* the LatLngs of the movement polyline
          localStorage,      \* the four storage keys, <<>> when absent
          board,             \* the Board: knownCells, and the log of its calls
          watching,          \* a geolocation watch is registered
          lastOp             \* the handler that ran last, and what it transferred

vars == <<playerMarker, playerCoins, cacheStore, rects, movementPolyline,
          localStorage, board, watching, lastOp>>

(***************************************************************************)
(* Bounds of the exploration.                                              *)
(***************************************************************************)
\* the polyline holds at most this many points (moves and reloads stop there)
MaxTrail == 4
\* direct calls of getCellForPoint made on one Board (specification SpecBoard)
MaxCalls == 4
\* CONFIG.NEIGHBORHOOD_SIZE (part_000:19) is 8; the window is scaled down
NEIGHBORHOOD_SIZE == 2

(***************************************************************************)
(* CONFIG (part_000:15-21).                                                *)
(***************************************************************************)
\* 1e-4 degrees, in units of 5e-5 degrees
TILE_DEGREES == 2
\* 0.1, in hundredths
CACHE_SPAWN_PROBABILITY == 10

LatLng(lat, lng) == [lat |-> lat, lng |-> lng]

OAKES_CLASSROOM == LatLng(1, -1)

\* the positions the geolocation API delivers
GeoPoints == {LatLng(2, -2)}

(***************************************************************************)
(* luck.ts is not part of the sources: a pure function from a string to a  *)
(* float in [0,1).  It is a fixed table here, in hundredths (floor of      *)
(* 100 * luck), over the key [i, j] and the key [i, j, "initialValue"].    *)
(* Two cells pass the spawn test: one in the last row of the classroom's   *)
(* window and one in the row beyond it.                                    *)
(***************************************************************************)
SpawnLuck == (<<NEIGHBORHOOD_SIZE - 1, -1>> :> 7) @@ (<<NEIGHBORHOOD_SIZE, -1>> :> 0)

luck(s) ==
    IF Len(s) = 2
    THEN IF s \in DOMAIN SpawnLuck THEN SpawnLuck[s]
         ELSE 10 + ((7 * s[1] + 13 * s[2]) % 90)
    ELSE (37 * s[1] + 11 * s[2] + 36) % 100

\* Math.floor(luck([cell.i, cell.j, "initialValue"].toString()) * 20)
initialCoins(i, j) == (luck(<<i, j, "initialValue">>) * 20) \div 100

(***************************************************************************)
(* Board (main.ts:140-178).  A Cell object is [i, j, oid]: oid is the      *)
(* identity of the object, the number of the allocation that made it.      *)
(* The board record holds knownCells and nextOid, and logs the last call   *)
(* (point, ret) and what the first call for each key returned (firstRet).  *)
(***************************************************************************)
getCacheKey(cell) == <<cell.i, cell.j>>

\* a Board that stores the new object on every call
getCanonicalCell_overwrite(knownCells, cell) ==
    LET key == <<cell.i, cell.j>>
        known1 == [k \in DOMAIN knownCells \cup {key} |->
                      IF k = key THEN cell ELSE knownCells[k]]
    IN  [knownCells |-> known1, ret |-> known1[key]]

getCanonicalCell(knownCells, cell) ==
    LET key == <<cell.i, cell.j>>
        known1 == IF key \notin DOMAIN knownCells
                  THEN knownCells @@ (key :> cell)
                  ELSE knownCells
    IN  [knownCells |-> known1, ret |-> known1[key]]

getCellForPoint(b, point) ==
    LET i == point.lat \div TILE_DEGREES
        j == point.lng \div TILE_DEGREES
        r == getCanonicalCell(b.knownCells, [i |-> i, j |-> j, oid |-> b.nextOid])
        key == <<i, j>>
    IN  [knownCells |-> r.knownCells,
         nextOid    |-> b.nextOid + 1,
         point      |-> <<point>>,
         ret        |-> <<r.ret>>,
         firstRet   |-> IF key \in DOMAIN b.firstRet THEN b.firstRet
                        ELSE b.firstRet @@ (key :> r.ret),
         calls      |-> b.calls]

NewBoard == [knownCells |-> <<>>, nextOid |-> 0, point |-> <<>>, ret |-> <<>>,
             firstRet |-> <<>>, calls |-> 0]

(***************************************************************************)
(* Cache operations (part_000:45-58).  A Cache object is [cell, coins].    *)
(* Every handler that assigns cache.coins calls saveCache(cache) next, so  *)
(* the object a rectangle holds and the object the store holds under its   *)
(* key are updated together; they differ only after loadGameState has      *)
(* replaced the store by parsed copies.                                    *)
(***************************************************************************)
createCache(store, cell) ==
    LET key == getCacheKey(cell)
    IN  [cell  |-> cell,
         coins |-> IF key \in DOMAIN store THEN store[key].coins
                   ELSE initialCoins(cell.i, cell.j)]

saveCache(store, cache) ==
    LET key == getCacheKey(cache.cell)
    IN  [k \in DOMAIN store \cup {key} |-> IF k = key THEN cache ELSE store[k]]

\* st = [board, cacheStore, rects]
spawnCache(st, cell) ==
    LET cache == createCache(st.cacheStore, cell)
    IN  [st EXCEPT !.rects = @ \cup {cache},
                   !.cacheStore = saveCache(@, cache)]

(***************************************************************************)
(* regenerateCaches (part_000:142-161): the rectangles are removed, then   *)
(* the loop over i runs the loop over j.  The state after a turn of a loop *)
(* is bound as st1 before the next turn starts from it.                    *)
(***************************************************************************)
\* the body of the inner loop
regenerateCell(i, j, center, st) ==
    LET cellPoint == LatLng(center.lat + i * TILE_DEGREES,
                            center.lng + j * TILE_DEGREES)
        b1   == getCellForPoint(st.board, cellPoint)
        cell == b1.ret[1]
        st1  == [st EXCEPT !.board = b1]
    IN  IF luck(<<cell.i, cell.j>>) < CACHE_SPAWN_PROBABILITY
        THEN spawnCache(st1, cell)
        ELSE st1

RECURSIVE regenerateRow(_, _, _, _)
regenerateRow(i, j, center, st) ==
    IF j < NEIGHBORHOOD_SIZE
    THEN CHOOSE st2 \in {regenerateRow(i, j + 1, center, st1) :
                            st1 \in {regenerateCell(i, j, center, st)}} : TRUE
    ELSE st

RECURSIVE regenerateRows(_, _, _)
regenerateRows(i, center, st) ==
    IF i < NEIGHBORHOOD_SIZE
    THEN CHOOSE st2 \in {regenerateRows(i + 1, center, st1) :
                            st1 \in {regenerateRow(i, -NEIGHBORHOOD_SIZE, center, st)}} : TRUE
    ELSE st

regenerateCaches(center, b, store) ==
    regenerateRows(-NEIGHBORHOOD_SIZE, center,
                   [board |-> b, cacheStore |-> store, rects |-> {}])

(***************************************************************************)
(* Serialisation.  A JSON text is modelled by the value it denotes: plain  *)
(* records and tuples without object identity.  A number written with      *)
(* toString is its sequence of decimal digits.                             *)
(***************************************************************************)
RECURSIVE toString(_)
toString(n) == IF n < 10 THEN <<n>> ELSE Append(toString(n \div 10), n % 10)

RECURSIVE parseInt(_)
parseInt(s) == IF s = <<>> THEN 0
               ELSE 10 * parseInt(SubSeq(s, 1, Len(s) - 1)) + s[Len(s)]

\* JSON.stringify(GameState.cacheStore)
stringifyStore(store) ==
    [k \in DOMAIN store |->
        [cell  |-> [i |-> store[k].cell.i, j |-> store[k].cell.j],
         coins |-> store[k].coins]]

\* JSON.parse of it: fresh objects, none of them a Cell of the Board (oid -1)
parseStore(json) ==
    [k \in DOMAIN json |->
        [cell  |-> [i |-> json[k].cell.i, j |-> json[k].cell.j, oid |-> -1],
         coins |-> json[k].coins]]

STORAGE_KEYS == {"playerPosition", "cacheStore", "playerCoins", "movementHistory"}

\* localStorage after clear()
EmptyStorage == [k \in STORAGE_KEYS |-> <<>>]

\* saveGameState (part_000:224-242)
saveGameState(marker, store, coins, polyline) ==
    [playerPosition  |-> <<(<<marker.lat, marker.lng>>)>>,
     cacheStore      |-> <<stringifyStore(store)>>,
     playerCoins     |-> <<toString(coins)>>,
     movementHistory |-> <<polyline>>]

\* a polyline that keeps only the newest point
addLatLng_only(polyline, position) == <<LatLng(position.lat, position.lng)>>

\* movementPolyline.addLatLng([position.lat, position.lng])
addLatLng(polyline, position) ==
    Append(polyline, LatLng(position.lat, position.lng))

(***************************************************************************)
(* The page load (part_000:24-36, 70, 188-189, 245-247, 291-292): the      *)
(* module-level state is built, regenerateCaches(OAKES_CLASSROOM) runs on  *)
(* the empty store, then loadGameState() and updateMovementHistory().      *)
(***************************************************************************)
\* loadGameState (part_000:200-221), applied to the state st built so far
loadGameState(ls, st) ==
    [playerMarker |-> IF ls.playerPosition # <<>>
                      THEN LatLng(ls.playerPosition[1][1], ls.playerPosition[1][2])
                      ELSE st.playerMarker,
     cacheStore   |-> IF ls.cacheStore # <<>>
                      THEN parseStore(ls.cacheStore[1])
                      ELSE st.cacheStore,
     playerCoins  |-> IF ls.playerCoins # <<>>
                      THEN parseInt(ls.playerCoins[1])
                      ELSE st.playerCoins,
     movementPolyline |-> IF ls.movementHistory # <<>>
                          THEN ls.movementHistory[1]
                          ELSE st.movementPolyline,
     rects |-> st.rects,
     board |-> st.board]

Startup(ls) ==
    LET r  == regenerateCaches(OAKES_CLASSROOM, NewBoard, <<>>)
        s0 == [playerMarker |-> OAKES_CLASSROOM, cacheStore |-> r.cacheStore,
               playerCoins |-> 0, movementPolyline |-> <<>>,
               rects |-> r.rects, board |-> r.board]
        s1 == loadGameState(ls, s0)
        pl == addLatLng(s1.movementPolyline, s1.playerMarker)
    IN  [s1 EXCEPT !.movementPolyline = pl]
            @@ [localStorage |-> saveGameState(s1.playerMarker, s1.cacheStore,
                                               s1.playerCoins, pl)]

SetState(s) ==
    /\ playerMarker' = s.playerMarker
    /\ playerCoins' = s.playerCoins
    /\ cacheStore' = s.cacheStore
    /\ rects' = s.rects
    /\ movementPolyline' = s.movementPolyline
    /\ localStorage' = s.localStorage
    /\ board' = s.board

Op(name, key, amount) == [name |-> name, key |-> key, amount |-> amount]

Init ==
    LET s == Startup(EmptyStorage)
    IN  /\ playerMarker = s.playerMarker
        /\ playerCoins = s.playerCoins
        /\ cacheStore = s.cacheStore
        /\ rects = s.rects
        /\ movementPolyline = s.movementPolyline
        /\ localStorage = s.localStorage
        /\ board = s.board
        /\ watching = FALSE
        /\ lastOp = Op("startup", <<>>, 0)

(***************************************************************************)
(* The handlers.                                                           *)
(***************************************************************************)
\* a collect that assigns instead of adding
collected_assign(coins, cache) == cache.coins

\* GameState.playerCoins += cache.coins (part_000:110)
collected(coins, cache) == coins + cache.coins

\* a collect that leaves one coin behind
emptied_leaveOne(cache) == [cache EXCEPT !.coins = 1]

\* a collect that leaves the cache as it was
emptied_keep(cache) == cache

\* cache.coins = 0 (part_000:111)
emptied(cache) == [cache EXCEPT !.coins = 0]

\* a deposit that assigns instead of adding
deposited_assign(cache, coins) == [cache EXCEPT !.coins = coins]

\* cache.coins += GameState.playerCoins (part_000:123)
deposited(cache, coins) == [cache EXCEPT !.coins = @ + coins]

\* handlers that run on an empty cache, an empty purse
hasCoins_always(n) == n >= 0

\* the guards cache.coins > 0 and GameState.playerCoins > 0 (part_000:109, 122)
hasCoins(n) == n > 0

\* a reset that removes the position only
clear_position(ls) == [ls EXCEPT !.playerPosition = <<>>]

\* localStorage.clear() (part_000:277)
clear(ls) == EmptyStorage

\* handleCollect (part_000:108-118), from the popup of the rectangle of cache
HandleCollect(cache) ==
    /\ lastOp' = Op("collect", getCacheKey(cache.cell), cache.coins)
    /\ IF hasCoins(cache.coins)
       THEN LET coins1 == collected(playerCoins, cache)
                cache1 == emptied(cache)
                store1 == saveCache(cacheStore, cache1)
            IN  /\ playerCoins' = coins1
                /\ rects' = (rects \ {cache}) \cup {cache1}
                /\ cacheStore' = store1
                /\ localStorage' = saveGameState(playerMarker, store1, coins1,
                                                 movementPolyline)
                /\ UNCHANGED <<playerMarker, movementPolyline, board, watching>>
       ELSE UNCHANGED <<playerMarker, playerCoins, cacheStore, rects,
                        movementPolyline, localStorage, board, watching>>

\* handleDeposit (part_000:121-131)
HandleDeposit(cache) ==
    /\ lastOp' = Op("deposit", getCacheKey(cache.cell), playerCoins)
    /\ IF hasCoins(playerCoins)
       THEN LET cache1 == deposited(cache, playerCoins)
                store1 == saveCache(cacheStore, cache1)
            IN  /\ playerCoins' = 0
                /\ rects' = (rects \ {cache}) \cup {cache1}
                /\ cacheStore' = store1
                /\ localStorage' = saveGameState(playerMarker, store1, 0,
                                                 movementPolyline)
                /\ UNCHANGED <<playerMarker, movementPolyline, board, watching>>
       ELSE UNCHANGED <<playerMarker, playerCoins, cacheStore, rects,
                        movementPolyline, localStorage, board, watching>>

\* movePlayer (part_000:166-172): updateMovementHistory saves, then the
\* caches are regenerated around the new position
movePlayer(latDelta, lngDelta) ==
    LET marker1 == LatLng(playerMarker.lat + latDelta, playerMarker.lng + lngDelta)
        pl      == addLatLng(movementPolyline, marker1)
        r       == regenerateCaches(marker1, board, cacheStore)
    IN  /\ Len(movementPolyline) < MaxTrail
        /\ playerMarker' = marker1
        /\ movementPolyline' = pl
        /\ localStorage' = saveGameState(marker1, cacheStore, playerCoins, pl)
        /\ rects' = r.rects
        /\ cacheStore' = r.cacheStore
        /\ board' = r.board
        /\ lastOp' = Op("move", <<>>, 0)
        /\ UNCHANGED <<playerCoins, watching>>

\* the click handlers of the four buttons (part_000:174-185)
MoveButton ==
    \/ movePlayer(TILE_DEGREES, 0)
    \/ movePlayer(-TILE_DEGREES, 0)
    \/ movePlayer(0, -TILE_DEGREES)
    \/ movePlayer(0, TILE_DEGREES)

\* enableGeolocation (part_000:257-272): the watch is registered
EnableGeolocation ==
    /\ ~watching
    /\ watching' = TRUE
    /\ lastOp' = Op("watch", <<>>, 0)
    /\ UNCHANGED <<playerMarker, playerCoins, cacheStore, rects,
                   movementPolyline, localStorage, board>>

\* the position callback of the watch (part_000:263-269)
PositionUpdate(position) ==
    LET pl == addLatLng(movementPolyline, position)
    IN  /\ watching
        /\ Len(movementPolyline) < MaxTrail
        /\ playerMarker' = position
        /\ movementPolyline' = pl
        /\ localStorage' = saveGameState(position, cacheStore, playerCoins, pl)
        /\ lastOp' = Op("geo", <<>>, 0)
        /\ UNCHANGED <<playerCoins, cacheStore, rects, board, watching>>

\* the page is loaded again over the storage as it is
Reload ==
    /\ localStorage.movementHistory # <<>>
    /\ Len(localStorage.movementHistory[1]) < MaxTrail
    /\ SetState(Startup(localStorage))
    /\ watching' = FALSE
    /\ lastOp' = Op("reload", <<>>, 0)

\* resetGameState (part_000:275-280), confirmed or declined; the amount logged
\* is the number of trail points the reset discards
ResetGameState(confirmed) ==
    IF confirmed
    THEN /\ SetState(Startup(clear(localStorage)))
         /\ watching' = FALSE
         /\ lastOp' = Op("reset", <<>>, Len(movementPolyline))
    ELSE /\ lastOp' = Op("reset", <<>>, 0)
         /\ UNCHANGED <<playerMarker, playerCoins, cacheStore, rects,
                        movementPolyline, localStorage, board, watching>>

Next ==
    \/ \E cache \in rects : HandleCollect(cache)
    \/ \E cache \in rects : HandleDeposit(cache)
    \/ MoveButton
    \/ EnableGeolocation
    \/ \E position \in GeoPoints : PositionUpdate(position)
    \/ Reload
    \/ \E confirmed \in BOOLEAN : ResetGameState(confirmed)

Spec == Init /\ [][Next]_vars

(***************************************************************************)
(* The Board alone: after the page has loaded, getCellForPoint is called   *)
(* directly with points of four cells, two of them new to the Board.       *)
(***************************************************************************)
BoardPoints ==
    {LatLng(a, b) : a \in (TILE_DEGREES * (NEIGHBORHOOD_SIZE - 1))
                          .. (TILE_DEGREES * (NEIGHBORHOOD_SIZE + 1) - 1),
                    b \in -1 .. 0}

BoardCall(point) ==
    /\ board.calls < MaxCalls
    /\ board' = [getCellForPoint(board, point) EXCEPT !.calls = @ + 1]
    /\ UNCHANGED <<playerMarker, playerCoins, cacheStore, rects,
                   movementPolyline, localStorage, watching, lastOp>>

NextBoard == \E point \in BoardPoints : BoardCall(point)

SpecBoard == Init /\ [][NextBoard]_vars

(***************************************************************************)
(* Views of the state used by the properties.                              *)
(***************************************************************************)
\* the keys of the caches displayed on the map
shownKeys == {getCacheKey(c.cell) : c \in rects}

\* the coin count a cell's cache holds: the count of the Cache object its
\* collect/deposit handlers operate on when it is displayed, the ledger's
\* count otherwise
coinsOf(rs, store, key) ==
    IF \E c \in rs : getCacheKey(c.cell) = key
    THEN (CHOOSE c \in rs : getCacheKey(c.cell) = key).coins
    ELSE store[key].coins

RECURSIVE sumCoins(_, _, _)
sumCoins(rs, store, keys) ==
    IF keys = {} THEN 0
    ELSE LET k == CHOOSE x \in keys : TRUE
         IN  coinsOf(rs, store, k) + sumCoins(rs, store, keys \ {k})

totalCoins(coins, rs, store) ==
    coins + sumCoins(rs, store, DOMAIN store \cup {getCacheKey(c.cell) : c \in rs})

\* the loop ranges of regenerateCaches: the cells of the window around center
windowKeys(center) ==
    {<<(center.lat + i * TILE_DEGREES) \div TILE_DEGREES,
       (center.lng + j * TILE_DEGREES) \div TILE_DEGREES>> :
        i \in -NEIGHBORHOOD_SIZE .. (NEIGHBORHOOD_SIZE - 1),
        j \in -NEIGHBORHOOD_SIZE .. (NEIGHBORHOOD_SIZE - 1)}

spawnEligible(keys) == {k \in keys : luck(k) < CACHE_SPAWN_PROBABILITY}

\* what the four storage keys hold, read back
persistedPosition(ls) == LatLng(ls.playerPosition[1][1], ls.playerPosition[1][2])
persistedCoins(ls) == parseInt(ls.playerCoins[1])
persistedLedger(ls) == [k \in DOMAIN ls.cacheStore[1] |-> ls.cacheStore[1][k].coins]
persistedTrail(ls) == ls.movementHistory[1]

ledger(store) == [k \in DOMAIN store |-> store[k].coins]

allPersisted(ls) == \A k \in STORAGE_KEYS : ls[k] # <<>>

transferred == lastOp.name \in {"collect", "deposit"} /\ lastOp.amount > 0

(***************************************************************************)
(* C1.  Collect and deposit conserve coins: over every collect and every   *)
(* deposit step, the player's balance plus the coin counts of all caches   *)
(* (the count its handlers operate on for a displayed cache, the ledger's  *)
(* count for any other) is unchanged.                                      *)
(***************************************************************************)
C1_Conservation ==
    [][lastOp'.name \in {"collect", "deposit"}
         => totalCoins(playerCoins', rects', cacheStore')
              = totalCoins(playerCoins, rects, cacheStore)]_vars

\* coins of one cache have been deposited into the other
C1_Witness ==
    /\ lastOp.name = "deposit"
    /\ lastOp.amount > 0
    /\ Cardinality(rects) = 2
    /\ \E c \in rects : c.coins = 0

(***************************************************************************)
(* C2.  After a reload the player's balance, the player's position and the *)
(* coin count every displayed cache's handlers operate on equal the values *)
(* persisted at the last save.                                             *)
(***************************************************************************)
C2_ReloadRestores ==
    [][lastOp'.name = "reload" /\ allPersisted(localStorage)
         => /\ playerCoins' = persistedCoins(localStorage)
            /\ playerMarker' = persistedPosition(localStorage)
            /\ \A c \in rects' :
                  /\ getCacheKey(c.cell) \in DOMAIN persistedLedger(localStorage)
                  /\ c.coins = persistedLedger(localStorage)[getCacheKey(c.cell)]]_vars

(***************************************************************************)
(* C3.  When a button move, a collect or deposit that transfers coins, or  *)
(* a geolocation update has completed, the four persisted values equal the *)
(* in-memory position, ledger, balance and trail.                          *)
(***************************************************************************)
C3_PersistedAfterAction ==
    (lastOp.name \in {"move", "geo"} \/ transferred)
      => /\ allPersisted(localStorage)
         /\ persistedPosition(localStorage) = playerMarker
         /\ persistedLedger(localStorage) = ledger(cacheStore)
         /\ persistedCoins(localStorage) = playerCoins
         /\ persistedTrail(localStorage) = movementPolyline

(***************************************************************************)
(* C4.  On one Board every call of getCellForPoint returns the very Cell   *)
(* object the first call for the same (i,j) returned, and an entry of      *)
(* knownCells is never replaced or removed once set.                       *)
(***************************************************************************)
C4_Canonical ==
    /\ [](board.ret # <<>> =>
            LET key == <<board.point[1].lat \div TILE_DEGREES,
                         board.point[1].lng \div TILE_DEGREES>>
            IN  /\ key \in DOMAIN board.firstRet
                /\ board.ret[1] = board.firstRet[key]
                /\ board.ret[1].i = key[1] /\ board.ret[1].j = key[2])
    /\ [][\A k \in DOMAIN board.knownCells :
            /\ k \in DOMAIN board.knownCells'
            /\ board.knownCells'[k] = board.knownCells[k]]_vars

\* a cell first seen in a direct call has been asked for again, through
\* another point, and the object of the earlier call came back
C4_Witness ==
    /\ board.calls >= 2
    /\ board.ret # <<>>
    /\ board.ret[1].oid >= 4 * NEIGHBORHOOD_SIZE * NEIGHBORHOOD_SIZE
    /\ board.ret[1].oid < board.nextOid - 1
    /\ board.point[1].lat % TILE_DEGREES = 1

(***************************************************************************)
(* C5.  A collect on a cache holding c > 0 coins sets the cache's stored   *)
(* count (in the ledger and in storage) to 0 and raises the player's       *)
(* balance by exactly c.                                                   *)
(***************************************************************************)
C5_Collect ==
    [][lastOp'.name = "collect" /\ coinsOf(rects, cacheStore, lastOp'.key) > 0
         => /\ playerCoins' = playerCoins + coinsOf(rects, cacheStore, lastOp'.key)
            /\ cacheStore'[lastOp'.key].coins = 0
            /\ coinsOf(rects', cacheStore', lastOp'.key) = 0
            /\ persistedLedger(localStorage')[lastOp'.key] = 0
            /\ persistedCoins(localStorage') = playerCoins']_vars

\* a collect by a player who already had coins
C5_Witness ==
    /\ lastOp.name = "collect"
    /\ lastOp.amount > 0
    /\ playerCoins > lastOp.amount
    /\ cacheStore[lastOp.key].coins = 0

C7_SpawnKeepsCount ==
    [][lastOp'.name \in {"move", "reload"}
         => \A c \in rects' :
              LET key == getCacheKey(c.cell)
              IN  IF key \in DOMAIN cacheStore
                  THEN c.coins = cacheStore[key].coins
                  ELSE c.coins = initialCoins(key[1], key[2])
                       /\ c.coins \in 0 .. 19]_vars

(***************************************************************************)
(* C8.  The displayed caches are exactly the spawn-eligible cells of the   *)
(* window centred on the player's current position.                        *)
(***************************************************************************)
C8_DisplayedWindow ==
    shownKeys = spawnEligible(windowKeys(playerMarker))

(***************************************************************************)
(* C9.  A collect on a cache holding 0 coins and a deposit by a player     *)
(* holding 0 coins change neither the balance, nor a cache, nor storage.   *)
(***************************************************************************)
C9_NoOp ==
    [][((lastOp'.name = "collect" /\ coinsOf(rects, cacheStore, lastOp'.key) = 0)
          \/ (lastOp'.name = "deposit" /\ playerCoins = 0))
         => UNCHANGED <<playerCoins, cacheStore, rects, localStorage>>]_vars

\* a collect on an emptied cache while the ledger holds a cell that storage
\* does not hold yet
C9_Witness ==
    /\ lastOp.name = "collect"
    /\ lastOp.amount = 0
    /\ persistedLedger(localStorage) # ledger(cacheStore)

(***************************************************************************)
(* C10.  After a confirmed reset and its reload nothing persisted before   *)
(* survives: balance 0, position and trail the start location, and every   *)
(* cache at its initial count, in memory and in storage.                   *)
(***************************************************************************)
C10_Reset ==
    (lastOp.name = "reset" /\ lastOp.amount > 0)
      => /\ playerCoins = 0
         /\ playerMarker = OAKES_CLASSROOM
         /\ movementPolyline = <<OAKES_CLASSROOM>>
         /\ \A c \in rects : c.coins = initialCoins(c.cell.i, c.cell.j)
         /\ \A k \in DOMAIN cacheStore :
               cacheStore[k].coins = initialCoins(k[1], k[2])
         /\ shownKeys = spawnEligible(windowKeys(OAKES_CLASSROOM))
         /\ DOMAIN cacheStore = shownKeys
         /\ localStorage = saveGameState(playerMarker, cacheStore, playerCoins,
                                         movementPolyline)

\* a reset that discarded a trail of several points
C10_Witness ==
    /\ lastOp.name = "reset"
    /\ lastOp.amount >= 3

(***************************************************************************)
(* C11.  The movement trail is append-only.                                *)
(***************************************************************************)
isPrefix(s1, s2) == Len(s1) <= Len(s2) /\ SubSeq(s2, 1, Len(s1)) = s1

\* a button move or a geolocation update has put the new position last
appendedPosition ==
    lastOp'.name \in {"move", "geo"}
      => /\ Len(movementPolyline') = Len(movementPolyline) + 1
         /\ movementPolyline'[Len(movementPolyline')] = playerMarker'

\* C11 as stated: every button move or geolocation update appends the new
\* position as the last element, and over every action, a reload included,
\* the trail before is a prefix of the trail after.
C11_AppendOnlyEveryAction ==
    [][appendedPosition /\ isPrefix(movementPolyline, movementPolyline')]_vars

\* C11 as amended: the same over every action other than a confirmed reset,
\* which starts the trail again at the start position.
C11_AppendOnly ==
    [][/\ appendedPosition
       /\ (~(lastOp'.name = "reset" /\ lastOp'.amount > 0)
             => isPrefix(movementPolyline, movementPolyline'))]_vars

\* a reload that restored a trail of moves and put the position after it
C11_Witness ==
    /\ lastOp.name = "reload"
    /\ Len(movementPolyline) >= 3
    /\ movementPolyline[2] # movementPolyline[1]
    /\ persistedTrail(localStorage) = movementPolyline

(***************************************************************************)
(* C12.  From a balance of 0 and a cache holding n coins, a collect and    *)
(* then a deposit on the same cache leave the cache at n and the player at *)
(* 0.  The collect logged n and left the balance at n, so it started from  *)
(* a balance of 0; the step checked is the deposit that follows it.        *)
(***************************************************************************)
C12_CollectThenDeposit ==
    [][(lastOp.name = "collect" /\ lastOp.amount > 0
          /\ playerCoins = lastOp.amount
          /\ lastOp'.name = "deposit" /\ lastOp'.key = lastOp.key)
         => /\ playerCoins' = 0
            /\ coinsOf(rects', cacheStore', lastOp.key) = lastOp.amount
            /\ cacheStore'[lastOp.key].coins = lastOp.amount
            /\ persistedLedger(localStorage')[lastOp.key] = lastOp.amount
            /\ persistedCoins(localStorage') = 0]_vars

\* the deposit has put back all the coins of the cache, the only ones the
\* player held
C12_Witness ==
    /\ lastOp.name = "deposit"
    /\ lastOp.amount > 0
    /\ playerCoins = 0
    /\ coinsOf(rects, cacheStore, lastOp.key) = lastOp.amount
    /\ lastOp.amount = initialCoins(lastOp.key[1], lastOp.key[2])

(***************************************************************************)
(* C13.  Over collect, deposit, button move, geolocation update and page   *)
(* reload the player's balance plus the coin counts of all cells never     *)
(* changes, a cell not yet initialised counted at its initial value.       *)
(***************************************************************************)
\* the cells of the world that hold a cache
cacheCells == DOMAIN SpawnLuck

cellCoins(rs, store, key) ==
    IF key \in DOMAIN store \/ (\E c \in rs : getCacheKey(c.cell) = key)
    THEN coinsOf(rs, store, key)
    ELSE initialCoins(key[1], key[2])

RECURSIVE sumCells(_, _, _)
sumCells(rs, store, keys) ==
    IF keys = {} THEN 0
    ELSE LET k == CHOOSE x \in keys : TRUE
         IN  cellCoins(rs, store, k) + sumCells(rs, store, keys \ {k})

worldCoins(coins, rs, store) == coins + sumCells(rs, store, cacheCells)

C13_SessionConservation ==
    [][lastOp'.name \in {"collect", "deposit", "move", "geo", "reload"}
         => worldCoins(playerCoins', rects', cacheStore')
              = worldCoins(playerCoins, rects, cacheStore)]_vars

====
